---- MODULE Spec2Model ----
(***************************************************************************)
(* A model of scripts/dino.py: the GroundingDINO model cache               *)
(* (dino_model_cache, clear_dino_cache, load_dino_model), the inference    *)
(* pipeline (install_goundingdino, load_dino_image, get_grounding_output,  *)
(* dino_predict_internal) and the box renderer (show_boxes).               *)
(*                                                                         *)
(* Every call is a sequence of steps of the calling thread, one step per   *)
(* statement group of the source; frame[t] holds thread t's position (pc)  *)
(* and local variables.  Tensor values are fixed-point numbers: a value v  *)
(* is stored as the integer v * Scale.                                     *)
(***************************************************************************)
EXTENDS Integers, Naturals, Sequences, FiniteSets, TLC

\* ---------------------------------------------------------------- bounds
\* Model objects that build_model may construct in one run.
MaxLoads == 3
\* Queries (rows of pred_logits / pred_boxes) of one model output.
MaxQueries == 2
\* Classes (columns of pred_logits; 256 in the real model).
NumClasses == 2
\* Boxes passed to show_boxes in one call.
MaxShowBoxes == 2
\* Side of the square image given to show_boxes, in pixels.
ImgSide == 3

\* ------------------------------------------------------------- constants
\* Fixed-point denominator: normalized coordinates are multiples of 1/10,
\* stored as even integers so that "/ 2" is exact.
Scale == 2 * 10
\* n tenths as a stored value
Tenths(n) == n * (Scale \div 10)
\* p pixels as a stored value
Pixels(p) == p * Scale

\* The calling threads: the sequential specifications use MainThread only, the
\* concurrent one runs two calls side by side.
MainThread == 1
Threads == {MainThread, 2}

\* dino_model_list / the keys of dino_model_info
dino_model_list == {"SwinT_OGC", "SwinB"}
\* names a caller may pass: the registered ones and one that is not registered
ModelNames == dino_model_list \cup {"unregistered"}

None == "None"
Raised == "raised"

\* ------------------------------------------------------- pure operators
Max2(a, b) == IF a >= b THEN a ELSE b

RECURSIVE SeqMax(_)
\* tensor.max over a non-empty row
SeqMax(s) == IF Len(s) = 1 THEN s[1] ELSE Max2(s[1], SeqMax(Tail(s)))

\* torch.sigmoid on the raw logits the model may emit, in percent
\* (sigmoid(-1) = 0.27, sigmoid(0) = 0.50, sigmoid(1) = 0.73).
RawLogits == {0, 1}
Sigmoid(x) == CASE x = -1 -> 27 [] x = 0 -> 50 [] x = 1 -> 73

RECURSIVE MaskSelect(_, _)
\* tensor[mask]: the rows whose mask bit is set, in their original order
MaskSelect(rows, mask) ==
    IF rows = <<>> THEN <<>>
    ELSE IF Head(mask) THEN <<Head(rows)>> \o MaskSelect(Tail(rows), Tail(mask))
         ELSE MaskSelect(Tail(rows), Tail(mask))

\* A faulty variant of FiltMask: a non-strict comparison.
FiltMaskNonStrict(logits, box_threshold) ==
    [i \in 1..Len(logits) |->
        SeqMax([c \in 1..Len(logits[i]) |-> Sigmoid(logits[i][c])]) >= box_threshold]

\* filt_mask = logits_filt.max(dim=1)[0] > box_threshold, on sigmoid(pred_logits)
FiltMask(logits, box_threshold) ==
    [i \in 1..Len(logits) |->
        SeqMax([c \in 1..Len(logits[i]) |-> Sigmoid(logits[i][c])]) > box_threshold]

\* boxes_filt = boxes_filt[filt_mask]
FilterBoxes(logits, boxes, box_threshold) ==
    MaskSelect(boxes, FiltMask(logits, box_threshold))

\* A faulty variant of RescaleBox: the bottom-right corner is computed before the
\* top-left one.
RescaleBoxSwapped(b, W, H) ==
    LET s  == <<b[1] * W, b[2] * H, b[3] * W, b[4] * H>>
        br == <<s[1], s[2], s[3] + s[1], s[4] + s[2]>>
    IN  <<br[1] - (br[3] \div 2), br[2] - (br[4] \div 2), br[3], br[4]>>

\* One iteration of the loop of dino_predict_internal, statement by statement:
\*   boxes_filt[i] = boxes_filt[i] * torch.Tensor([W, H, W, H])
\*   boxes_filt[i][:2] -= boxes_filt[i][2:] / 2
\*   boxes_filt[i][2:] += boxes_filt[i][:2]
RescaleBox(b, W, H) ==
    LET s  == <<b[1] * W, b[2] * H, b[3] * W, b[4] * H>>
        tl == <<s[1] - (s[3] \div 2), s[2] - (s[4] \div 2), s[3], s[4]>>
    IN  <<tl[1], tl[2], tl[3] + tl[1], tl[4] + tl[2]>>

\* for i in range(boxes_filt.size(0)): ...
RescaleBoxes(boxes, W, H) == [i \in 1..Len(boxes) |-> RescaleBox(boxes[i], W, H)]

\* ----------------------------------------------------------------- state
VARIABLES
    lowvram,            \* shared.cmd_opts.lowvram, fixed for the process
    installed,          \* launch.is_installed("groundingdino")
    dino_model_cache,   \* checkpoint name -> model handle
    models,             \* the model objects built so far, by handle
    frame,              \* per thread: position and locals of its current call
    prev,               \* the call that returned last: [op, name, ret]
    useLock,            \* whether callers serialize their calls by one lock
    lock,               \* the holder of that lock, 0 when free
    images,             \* the image objects (arrays) allocated so far, by id
    show                \* position, arguments and result of the show_boxes call

vars == <<lowvram, installed, dino_model_cache, models, frame, prev,
          useLock, lock, images, show>>

cacheVars == <<lowvram, installed, dino_model_cache, models, frame, prev,
               useLock, lock>>
showVars == <<images, show>>

\* OrderedDict(): no entry.  (The insertion order is never read by the module.)
EmptyCache == [k \in {} |-> 0]

NoRet == [kind |-> "pending", model |-> 0, boxes |-> <<>>, ok |-> FALSE]
\* return dino
RetModel(h) == [kind |-> "model", model |-> h, boxes |-> <<>>, ok |-> TRUE]
\* return boxes_filt, True
RetBoxes(b) == [kind |-> "boxes", model |-> 0, boxes |-> b, ok |-> TRUE]
\* return None, False
RetNoneFalse == [kind |-> "none", model |-> 0, boxes |-> <<>>, ok |-> FALSE]
\* clear_dino_cache returns nothing
RetVoid == [kind |-> "void", model |-> 0, boxes |-> <<>>, ok |-> TRUE]
\* an exception leaves the call
RetRaised == [kind |-> Raised, model |-> 0, boxes |-> <<>>, ok |-> FALSE]

IdleFrame ==
    [pc |-> "idle", op |-> "none", name |-> None, dino |-> 0, ret |-> NoRet,
     trace |-> <<>>, cache0 |-> EmptyCache, failedAt |-> None,
     W |-> 0, H |-> 0, thr |-> 0, logits |-> <<>>, pred_boxes |-> <<>>,
     boxes_filt |-> <<>>]

NoPrev == [op |-> "none", name |-> None, kind |-> "pending", model |-> 0]

\* frame[t] with an exception raised at step `at`
Raise(f, at) == [f EXCEPT !.pc = "done", !.ret = RetRaised, !.failedAt = at]

\* The external serialization of calls (one lock per host instance).
CanEnter(t) == useLock => lock = 0
Enter(t) == lock' = IF useLock THEN t ELSE lock
Leave(t) == lock' = IF lock = t THEN 0 ELSE lock

\* f with event e appended to the call's event log
Log(f, e) == [f EXCEPT !.trace = Append(@, e)]

Step(t, f) == frame' = [frame EXCEPT ![t] = f]

NextHandle == Len(models) + 1

\* A model object no reference is left to: its memory is released.
Freed == [loc |-> "freed", training |-> FALSE, weights |-> FALSE]

\* The handles referenced by cache c or by a local variable of a frame of fr.
Live(c, fr) == {c[k] : k \in DOMAIN c} \cup {fr[t].dino : t \in Threads}

\* Reference counting: the objects of ms that c and fr no longer reference are
\* released.
Collected(ms, c, fr) ==
    [h \in 1..Len(ms) |-> IF h \in Live(c, fr) THEN ms[h] ELSE Freed]

\* ------------------------------------------------------------ the calls
\* A caller enters load_dino_model(name).
CallLoad(t, names) ==
    /\ frame[t].pc = "idle"
    /\ CanEnter(t)
    /\ NextHandle <= MaxLoads
    /\ \E name \in names :
         Step(t, Log([IdleFrame EXCEPT !.pc = "load", !.op = "load", !.name = name,
                                       !.cache0 = dino_model_cache], "load_dino_model"))
    /\ Enter(t)
    /\ UNCHANGED <<lowvram, installed, dino_model_cache, models, prev, useLock, showVars>>

\* A caller enters clear_dino_cache().
CallClear(t) ==
    /\ frame[t].pc = "idle"
    /\ CanEnter(t)
    /\ Step(t, [IdleFrame EXCEPT !.pc = "clear", !.op = "clear",
                                 !.cache0 = dino_model_cache])
    /\ Enter(t)
    /\ UNCHANGED <<lowvram, installed, dino_model_cache, models, prev, useLock, showVars>>

\* A caller enters dino_predict_internal(input_image, dino_model_name,
\* text_prompt, box_threshold); sizes are the (W, H) of input_image.
CallPredict(t, names, sizes, thresholds) ==
    /\ frame[t].pc = "idle"
    /\ CanEnter(t)
    /\ NextHandle <= MaxLoads
    /\ \E name \in names, size \in sizes, thr \in thresholds :
         Step(t, [IdleFrame EXCEPT !.pc = "install", !.op = "predict", !.name = name,
                                   !.W = size[1], !.H = size[2], !.thr = thr,
                                   !.cache0 = dino_model_cache])
    /\ Enter(t)
    /\ UNCHANGED <<lowvram, installed, dino_model_cache, models, prev, useLock, showVars>>

\* A faulty variant of Install: a failed installation does not stop the pipeline.
InstallNoEarlyReturn(t) ==
    /\ frame[t].pc = "install"
    /\ \/ /\ installed
          /\ Step(t, Log([frame[t] EXCEPT !.pc = "preprocess"], "install_true"))
          /\ UNCHANGED installed
       \/ /\ ~installed
          /\ installed' = TRUE
          /\ Step(t, Log([frame[t] EXCEPT !.pc = "preprocess"], "install_true"))
       \/ /\ ~installed
          /\ Step(t, Log([frame[t] EXCEPT !.pc = "preprocess"], "install_false"))
          /\ UNCHANGED installed
    /\ UNCHANGED <<lowvram, dino_model_cache, models, prev, useLock, lock, showVars>>

\* install_success = install_goundingdino(); if not install_success: return None, False
Install(t) ==
    /\ frame[t].pc = "install"
    /\ \/ \* launch.is_installed("groundingdino")
          /\ installed
          /\ Step(t, Log([frame[t] EXCEPT !.pc = "preprocess"], "install_true"))
          /\ UNCHANGED installed
       \/ \* launch.run_pip succeeds
          /\ ~installed
          /\ installed' = TRUE
          /\ Step(t, Log([frame[t] EXCEPT !.pc = "preprocess"], "install_true"))
       \/ \* launch.run_pip raises: caught, install_goundingdino returns False
          /\ ~installed
          /\ Step(t, Log([frame[t] EXCEPT !.pc = "done", !.ret = RetNoneFalse],
                         "install_false"))
          /\ UNCHANGED installed
    /\ UNCHANGED <<lowvram, dino_model_cache, models, prev, useLock, lock, showVars>>

\* dino_image = load_dino_image(input_image.convert("RGB"))
Preprocess(t) ==
    /\ frame[t].pc = "preprocess"
    /\ Step(t, Log([frame[t] EXCEPT !.pc = "load"], "load_dino_image"))
    /\ UNCHANGED <<lowvram, installed, dino_model_cache, models, prev, useLock, lock,
                   showVars>>

\* A faulty variant of LoadCheck: the cache is never consulted, every load rebuilds.
LoadCheckAlwaysMiss(t) ==
    /\ frame[t].pc = "load"
    /\ Step(t, Log([frame[t] EXCEPT !.pc = "clear"], "miss"))
    /\ UNCHANGED <<lowvram, installed, dino_model_cache, models, prev, useLock, lock,
                   showVars>>

\* if dino_checkpoint in dino_model_cache: dino = dino_model_cache[dino_checkpoint]
LoadCheck(t) ==
    /\ frame[t].pc = "load"
    /\ IF frame[t].name \in DOMAIN dino_model_cache
       THEN Step(t, Log([frame[t] EXCEPT
                            !.dino = dino_model_cache[frame[t].name],
                            !.pc = IF lowvram THEN "hit_to_device" ELSE "eval"], "hit"))
       ELSE Step(t, Log([frame[t] EXCEPT !.pc = "clear"], "miss"))
    /\ UNCHANGED <<lowvram, installed, dino_model_cache, models, prev, useLock, lock,
                   showVars>>

\* if shared.cmd_opts.lowvram: dino.to(device=device)     (cache hit)
HitToDevice(t) ==
    /\ frame[t].pc = "hit_to_device"
    /\ \/ /\ models' = [models EXCEPT ![frame[t].dino].loc = "device"]
          /\ Step(t, Log([frame[t] EXCEPT !.pc = "eval"], "to_device"))
       \/ \* the accelerator is out of memory
          /\ Step(t, Raise(frame[t], "to_device"))
          /\ UNCHANGED models
    /\ UNCHANGED <<lowvram, installed, dino_model_cache, prev, useLock, lock, showVars>>

\* A faulty variant of ClearDinoCache: load_dino_model does not evict.
ClearDinoCacheKeeps(t) ==
    /\ frame[t].pc = "clear"
    /\ dino_model_cache' = IF frame[t].op = "clear" THEN EmptyCache ELSE dino_model_cache
    /\ Step(t, LET f == Log(Log(Log(frame[t], "clear"), "gc.collect"), "torch_gc")
               IN  IF f.op = "clear"
                   THEN [f EXCEPT !.pc = "done", !.ret = RetVoid]
                   ELSE [f EXCEPT !.pc = "config"])
    /\ UNCHANGED <<lowvram, installed, models, prev, useLock, lock, showVars>>

\* clear_dino_cache(): dino_model_cache.clear(); gc.collect(); torch_gc()
\* called by a caller, or by load_dino_model on a cache miss
ClearDinoCache(t) ==
    /\ frame[t].pc = "clear"
    /\ dino_model_cache' = EmptyCache
    /\ models' = Collected(models, EmptyCache, frame)
    /\ Step(t, LET f == Log(Log(Log(frame[t], "clear"), "gc.collect"), "torch_gc")
               IN  IF f.op = "clear"
                   THEN [f EXCEPT !.pc = "done", !.ret = RetVoid]
                   ELSE [f EXCEPT !.pc = "config"])
    /\ UNCHANGED <<lowvram, installed, prev, useLock, lock, showVars>>

\* args = SLConfig.fromfile(dino_model_info[dino_checkpoint]["config"])
Config(t) ==
    /\ frame[t].pc = "config"
    /\ \/ /\ frame[t].name \in dino_model_list
          /\ Step(t, Log([frame[t] EXCEPT !.pc = "build"], "config"))
       \/ \* KeyError for an unregistered name, or the config file does not parse
          /\ Step(t, Raise(frame[t], "config"))
    /\ UNCHANGED <<lowvram, installed, dino_model_cache, models, prev, useLock, lock,
                   showVars>>

\* A faulty variant of Build: the model is inserted into the cache as soon as it is built.
BuildInsertsEarly(t) ==
    /\ frame[t].pc = "build"
    /\ models' = Append(models, [loc |-> "cpu", training |-> TRUE, weights |-> FALSE])
    /\ dino_model_cache' =
          [k \in DOMAIN dino_model_cache \cup {frame[t].name} |->
              IF k = frame[t].name THEN NextHandle ELSE dino_model_cache[k]]
    /\ Step(t, Log([frame[t] EXCEPT !.pc = "download", !.dino = NextHandle], "build"))
    /\ UNCHANGED <<lowvram, installed, prev, useLock, lock, showVars>>

\* dino = build_model(args): a new model object, on the host, in training mode
Build(t) ==
    /\ frame[t].pc = "build"
    /\ \/ /\ models' = Append(models, [loc |-> "cpu", training |-> TRUE,
                                       weights |-> FALSE])
          /\ Step(t, Log([frame[t] EXCEPT !.pc = "download", !.dino = NextHandle],
                         "build"))
       \/ /\ Step(t, Raise(frame[t], "build"))
          /\ UNCHANGED models
    /\ UNCHANGED <<lowvram, installed, dino_model_cache, prev, useLock, lock, showVars>>

\* checkpoint = torch.hub.load_state_dict_from_url(url, dino_model_dir)
\* dino.load_state_dict(clean_state_dict(checkpoint['model']), strict=False)
Download(t) ==
    /\ frame[t].pc = "download"
    /\ \/ /\ models' = [models EXCEPT ![frame[t].dino].weights = TRUE]
          /\ Step(t, Log([frame[t] EXCEPT !.pc = "to_device"], "download"))
       \/ /\ Step(t, Raise(frame[t], "download"))
          /\ UNCHANGED models
    /\ UNCHANGED <<lowvram, installed, dino_model_cache, prev, useLock, lock, showVars>>

\* dino.to(device=device)                                   (cache miss)
ToDevice(t) ==
    /\ frame[t].pc = "to_device"
    /\ \/ /\ models' = [models EXCEPT ![frame[t].dino].loc = "device"]
          /\ Step(t, Log([frame[t] EXCEPT !.pc = "insert"], "to_device"))
       \/ /\ Step(t, Raise(frame[t], "to_device"))
          /\ UNCHANGED models
    /\ UNCHANGED <<lowvram, installed, dino_model_cache, prev, useLock, lock, showVars>>

\* dino_model_cache[dino_checkpoint] = dino
Insert(t) ==
    /\ frame[t].pc = "insert"
    /\ dino_model_cache' =
          [k \in DOMAIN dino_model_cache \cup {frame[t].name} |->
              IF k = frame[t].name THEN frame[t].dino ELSE dino_model_cache[k]]
    /\ Step(t, Log([frame[t] EXCEPT !.pc = "eval"], "insert"))
    /\ UNCHANGED <<lowvram, installed, models, prev, useLock, lock, showVars>>

\* dino.eval(); return dino
Eval(t) ==
    /\ frame[t].pc = "eval"
    /\ models' = [models EXCEPT ![frame[t].dino].training = FALSE]
    /\ Step(t, LET f == Log(frame[t], "eval")
               IN  IF f.op = "load"
                   THEN [f EXCEPT !.pc = "done", !.ret = RetModel(f.dino)]
                   ELSE [f EXCEPT !.pc = "forward"])
    /\ UNCHANGED <<lowvram, installed, dino_model_cache, prev, useLock, lock, showVars>>

\* --------------------------------------------------- the model's outputs
\* one row of pred_logits
LogitRows == [1..NumClasses -> RawLogits]
\* rows of pred_boxes: normalized (cx, cy, w, h)
NormBoxes == { <<Tenths(5), Tenths(5), Tenths(2), Tenths(4)>>,
               <<Tenths(3), Tenths(7), Tenths(6), Tenths(2)>> }
\* the rows the sequential runs draw from: a confident query or none
FewRows == { [c \in 1..NumClasses |-> x] : x \in RawLogits }
FewBoxes == { <<Tenths(5), Tenths(5), Tenths(2), Tenths(4)>> }
\* input_image.size
ImageSizes == { <<640, 480>>, <<100, 60>> }
\* box_threshold, in percent
Thresholds == {35, 50}

\* get_grounding_output up to the forward pass:
\*   image = image.to(device); outputs = model(image[None], captions=[caption])
\* the model answers with nq rows of pred_logits (from rows) and pred_boxes
\* (from boxes)
Forward(t, rows, boxes) ==
    /\ frame[t].pc = "forward"
    /\ \/ \E nq \in 1..MaxQueries :
          \E l \in [1..nq -> rows], b \in [1..nq -> boxes] :
            Step(t, Log([frame[t] EXCEPT !.pc = "offload", !.logits = l,
                                         !.pred_boxes = b],
                        IF models[frame[t].dino].loc = "device"
                        THEN "forward_on_device" ELSE "forward_off_device"))
       \/ \* the forward pass fails (e.g. out of memory)
          Step(t, Raise(frame[t], "forward"))
    /\ UNCHANGED <<lowvram, installed, dino_model_cache, models, prev, useLock, lock,
                   showVars>>

\* A faulty variant of Offload: the model is left on the compute device.
OffloadSkipped(t) ==
    /\ frame[t].pc = "offload"
    /\ Step(t, [frame[t] EXCEPT !.pc = "filter"])
    /\ UNCHANGED <<lowvram, installed, dino_model_cache, models, prev, useLock, lock,
                   showVars>>

\* if shared.cmd_opts.lowvram: model.to(cpu)
Offload(t) ==
    /\ frame[t].pc = "offload"
    /\ IF lowvram
       THEN /\ models' = [models EXCEPT ![frame[t].dino].loc = "cpu"]
            /\ Step(t, Log([frame[t] EXCEPT !.pc = "filter"], "to_cpu"))
       ELSE /\ Step(t, [frame[t] EXCEPT !.pc = "filter"])
            /\ UNCHANGED models
    /\ UNCHANGED <<lowvram, installed, dino_model_cache, prev, useLock, lock, showVars>>

\* logits = outputs["pred_logits"].sigmoid()[0] ... return boxes_filt.cpu()
Filter(t) ==
    /\ frame[t].pc = "filter"
    /\ Step(t, [frame[t] EXCEPT
                  !.pc = "rescale",
                  !.boxes_filt = FilterBoxes(frame[t].logits, frame[t].pred_boxes,
                                             frame[t].thr)])
    /\ UNCHANGED <<lowvram, installed, dino_model_cache, models, prev, useLock, lock,
                   showVars>>

\* H, W = input_image.size[1], input_image.size[0]; the loop over boxes_filt
Rescale(t) ==
    /\ frame[t].pc = "rescale"
    /\ Step(t, [frame[t] EXCEPT
                  !.pc = "reclaim",
                  !.boxes_filt = RescaleBoxes(frame[t].boxes_filt, frame[t].W,
                                              frame[t].H)])
    /\ UNCHANGED <<lowvram, installed, dino_model_cache, models, prev, useLock, lock,
                   showVars>>

\* A faulty variant of Reclaim: the pipeline returns without reclaiming memory.
ReclaimSkipped(t) ==
    /\ frame[t].pc = "reclaim"
    /\ Step(t, [frame[t] EXCEPT !.pc = "done", !.ret = RetBoxes(frame[t].boxes_filt)])
    /\ UNCHANGED <<lowvram, installed, dino_model_cache, models, prev, useLock, lock,
                   showVars>>

\* gc.collect(); torch_gc(); return boxes_filt, True
Reclaim(t) ==
    /\ frame[t].pc = "reclaim"
    /\ Step(t, [Log(Log(frame[t], "gc.collect"), "torch_gc") EXCEPT
                  !.pc = "done", !.ret = RetBoxes(frame[t].boxes_filt)])
    /\ UNCHANGED <<lowvram, installed, dino_model_cache, models, prev, useLock, lock,
                   showVars>>

\* The call has returned (or raised): control is back with the caller.
Return(t) ==
    /\ frame[t].pc = "done"
    /\ prev' = [op |-> frame[t].op, name |-> frame[t].name,
                kind |-> frame[t].ret.kind, model |-> frame[t].ret.model]
    /\ Step(t, IdleFrame)
    /\ models' = Collected(models, dino_model_cache, [frame EXCEPT ![t] = IdleFrame])
    /\ Leave(t)
    /\ UNCHANGED <<lowvram, installed, dino_model_cache, useLock, showVars>>

\* The steps of load_dino_model (and of clear_dino_cache, which it calls).
LoadStep(t) ==
    \/ LoadCheck(t) \/ HitToDevice(t) \/ ClearDinoCache(t) \/ Config(t)
    \/ Build(t) \/ Download(t) \/ ToDevice(t) \/ Insert(t) \/ Eval(t)

\* Every step of a call in progress, its position given by frame[t].pc.
CallStep(t, rows, boxes) ==
    \/ Install(t) \/ Preprocess(t) \/ LoadStep(t)
    \/ Forward(t, rows, boxes) \/ Offload(t) \/ Filter(t)
    \/ Rescale(t) \/ Reclaim(t) \/ Return(t)

\* ------------------------------------------------------------ show_boxes
\* color=(255, 0, 0, 255): the value a drawn pixel takes
DrawColor == 255

\* pixel coordinates of an ImgSide x ImgSide image
Coords == 0..(ImgSide - 1)
PixelGrid == Coords \X Coords
\* the caller's images: blank, uniformly grey, and one with a diagonal
InputImages ==
    { [p \in PixelGrid |-> 0],
      [p \in PixelGrid |-> 9],
      [p \in PixelGrid |-> IF p[1] = p[2] THEN 9 ELSE 0] }
\* the boxes a caller passes, as (x0, y0, x1, y1) in pixels
ShowBoxChoices ==
    { <<0, 0, ImgSide - 1, ImgSide - 1>>, <<1, 1, ImgSide - 1, ImgSide - 1>>,
      <<0, 0, 1, 1>>, <<1, 0, 1, ImgSide - 1>> }

NoShow == [pc |-> "idle", image_np |-> 0, boxes |-> <<>>, boxes_is_none |-> FALSE,
           show_index |-> FALSE, before |-> <<>>, result |-> 0]

\* cv2.rectangle(image, (x, y), (w, h), color, thickness): the outline of the
\* rectangle between the two corners, clipped to the image
Rectangle(image, box) ==
    [p \in DOMAIN image |->
        IF \/ /\ p[1] \in {box[1], box[3]}
              /\ p[2] >= box[2] /\ p[2] <= box[4]
           \/ /\ p[2] \in {box[2], box[4]}
              /\ p[1] >= box[1] /\ p[1] <= box[3]
        THEN DrawColor ELSE image[p]]

\* cv2.getTextSize(text, font, 1, 2)[0][1]: the rendered height of the index
TextHeight(idx) == 1

\* cv2.putText(image, text, (x, y+textsize[1]), font, 1, color, thickness):
\* the text colours the pixel it is anchored at, when that lies in the image
PutText(image, idx, box) ==
    [p \in DOMAIN image |->
        IF p = <<box[1], box[2] + TextHeight(idx)>> THEN DrawColor ELSE image[p]]

RECURSIVE DrawBoxes(_, _, _, _)
\* for idx, box in enumerate(boxes): ... from index idx (1-based here) on
DrawBoxes(image, boxes, idx, show_index) ==
    IF idx > Len(boxes) THEN image
    ELSE LET drawn == Rectangle(image, boxes[idx])
             texted == IF show_index THEN PutText(drawn, idx - 1, boxes[idx])
                       ELSE drawn
         IN  DrawBoxes(texted, boxes, idx + 1, show_index)

\* A caller enters show_boxes(image_np, boxes, show_index=...) with its image.
CallShowBoxes ==
    /\ show.pc = "idle"
    /\ \E none \in BOOLEAN, si \in BOOLEAN, n \in 0..MaxShowBoxes :
       \E bs \in [1..n -> ShowBoxChoices] :
          /\ none => (n = 0)
          /\ show' = [NoShow EXCEPT !.pc = "called", !.image_np = 1, !.boxes = bs,
                                    !.boxes_is_none = none, !.show_index = si,
                                    !.before = images[1]]
    /\ UNCHANGED <<images, cacheVars>>

\* A faulty variant of ShowBoxes: the boxes are drawn on the input itself
\* (image = image_np instead of a deep copy).
ShowBoxesInPlace ==
    /\ show.pc = "called"
    /\ IF show.boxes_is_none
       THEN /\ show' = [show EXCEPT !.pc = "returned", !.result = show.image_np]
            /\ UNCHANGED images
       ELSE /\ images' = [images EXCEPT ![show.image_np] =
                             DrawBoxes(images[show.image_np], show.boxes, 1,
                                       show.show_index)]
            /\ show' = [show EXCEPT !.pc = "returned", !.result = show.image_np]
    /\ UNCHANGED cacheVars

\* show_boxes(image_np, boxes, color, thickness, show_index), the whole call
ShowBoxes ==
    /\ show.pc = "called"
    /\ IF show.boxes_is_none
       THEN \* if boxes is None: return image_np
            /\ show' = [show EXCEPT !.pc = "returned", !.result = show.image_np]
            /\ UNCHANGED images
       ELSE \* image = copy.deepcopy(image_np); draw; return image
            /\ images' = Append(images,
                                DrawBoxes(images[show.image_np], show.boxes, 1,
                                          show.show_index))
            /\ show' = [show EXCEPT !.pc = "returned", !.result = Len(images) + 1]
    /\ UNCHANGED cacheVars

\* The caller takes the result; the next call starts from the caller's image.
ShowReturn ==
    /\ show.pc = "returned"
    /\ images' = <<images[1]>>
    /\ show' = NoShow
    /\ UNCHANGED cacheVars

\* ------------------------------------------------------- specifications
InitCache(locks, installs) ==
    /\ lowvram \in BOOLEAN
    /\ installed \in installs
    /\ dino_model_cache = EmptyCache
    /\ models = <<>>
    /\ frame = [t \in Threads |-> IdleFrame]
    /\ prev = NoPrev
    /\ useLock \in locks
    /\ lock = 0

InitShowIdle ==
    /\ images = <<>>
    /\ show = NoShow

\* The cache is not in use; the caller holds one image.
InitShow ==
    /\ lowvram = FALSE
    /\ installed = TRUE
    /\ dino_model_cache = EmptyCache
    /\ models = <<>>
    /\ frame = [t \in Threads |-> IdleFrame]
    /\ prev = NoPrev
    /\ useLock = FALSE
    /\ lock = 0
    /\ \E img \in InputImages : images = <<img>>
    /\ show = NoShow

\* Sequential use: one thread calls the three entry points, one call at a time.
Init == InitCache({FALSE}, BOOLEAN) /\ InitShowIdle

Next ==
    \/ CallLoad(MainThread, ModelNames)
    \/ CallClear(MainThread)
    \/ CallPredict(MainThread, ModelNames, {<<640, 480>>}, {50})
    \/ CallStep(MainThread, FewRows, FewBoxes)

Spec == Init /\ [][Next]_vars

\* The pipeline over every model output, image size and threshold of the bounds.
NextPipe ==
    \/ CallPredict(MainThread, {"SwinT_OGC"}, ImageSizes, Thresholds)
    \/ CallStep(MainThread, LogitRows, NormBoxes)

InitPipe == InitCache({FALSE}, {TRUE}) /\ InitShowIdle

SpecPipe == InitPipe /\ [][NextPipe]_vars

\* Concurrent use of the cache: two threads call load_dino_model, with or
\* without the callers' lock.
InitConc == InitCache(BOOLEAN, {TRUE}) /\ InitShowIdle

NextConc ==
    \E t \in Threads :
        \/ CallLoad(t, dino_model_list)
        \/ LoadStep(t)
        \/ Return(t)

SpecConc == InitConc /\ [][NextConc]_vars

\* The box renderer, called again and again on the caller's image.
NextShow == CallShowBoxes \/ ShowBoxes \/ ShowReturn

SpecShow == InitShow /\ [][NextShow]_vars

\* ================================================================ claims
\* the calling thread's frame in the sequential specifications
Cur == frame[MainThread]

Has(trace, e) == \E i \in DOMAIN trace : trace[i] = e

\* the log ends with gc.collect() followed by torch_gc()
EndsWithReclaim(trace) ==
    /\ Len(trace) >= 2
    /\ trace[Len(trace) - 1] = "gc.collect"
    /\ trace[Len(trace)] = "torch_gc"

\* every cached model object is at location loc
CachedAt(loc) == \A k \in DOMAIN dino_model_cache : models[dino_model_cache[k]].loc = loc

\* C1: under sequential use the cache holds zero or one entry at every moment,
\* and after a load_dino_model(X) that returned a model (whether the call has
\* just returned or the caller is idle after it) the single entry is X's and
\* holds the returned handle.
C1_SingleSlot ==
    /\ Cardinality(DOMAIN dino_model_cache) <= 1
    /\ (Cur.pc = "done" /\ Cur.op = "load" /\ Cur.ret.kind = "model")
          => /\ DOMAIN dino_model_cache = {Cur.name}
             /\ dino_model_cache[Cur.name] = Cur.ret.model
    /\ (Cur.pc = "idle" /\ prev.op = "load" /\ prev.kind = "model")
          => /\ DOMAIN dino_model_cache = {prev.name}
             /\ dino_model_cache[prev.name] = prev.model

\* C1 witness: load(SwinT_OGC) returned, then load(SwinB) returned, and the
\* cache holds SwinB's entry alone.
C1_Witness ==
    /\ Cur.pc = "done" /\ Cur.op = "load" /\ Cur.name = "SwinB"
    /\ Cur.ret.kind = "model"
    /\ prev.op = "load" /\ prev.name = "SwinT_OGC" /\ prev.kind = "model"
    /\ DOMAIN dino_model_cache = {"SwinB"}
    /\ DOMAIN Cur.cache0 = {"SwinT_OGC"}

\* C2: a load_dino_model(A) that directly follows a load_dino_model(A) that
\* returned a model evicts nothing, parses no config, builds no model and
\* downloads no checkpoint, leaves the cache as it found it, and when it
\* returns, returns the handle the first call returned.
C2_LoadTwice ==
    (/\ Cur.pc = "done" /\ Cur.op = "load"
     /\ prev.op = "load" /\ prev.kind = "model" /\ prev.name = Cur.name)
    => /\ ~Has(Cur.trace, "clear") /\ ~Has(Cur.trace, "config")
       /\ ~Has(Cur.trace, "build") /\ ~Has(Cur.trace, "download")
       /\ dino_model_cache = Cur.cache0
       /\ Cur.ret.kind \in {"model", Raised}
       /\ Cur.ret.kind = "model" => Cur.ret.model = prev.model

\* C2 witness: the second of two consecutive loads of one checkpoint has returned.
C2_Witness ==
    /\ Cur.pc = "done" /\ Cur.op = "load" /\ Cur.ret.kind = "model"
    /\ prev.op = "load" /\ prev.kind = "model" /\ prev.name = Cur.name
    /\ Cur.ret.model = prev.model

\* C3: when config parsing, model construction or the checkpoint download fails
\* inside load_dino_model(X), the call raises, and the cache holds no entry for
\* X and is either as before the call or empty.
C3_FailedLoadLeavesNoEntry ==
    (Cur.failedAt \in {"config", "build", "download"})
    => /\ Cur.pc = "done" /\ Cur.ret = RetRaised
       /\ Cur.name \notin DOMAIN dino_model_cache
       /\ \/ dino_model_cache = Cur.cache0
          \/ dino_model_cache = EmptyCache

\* C3 witness: the download failed in a call that found another checkpoint cached.
C3_Witness ==
    /\ Cur.pc = "done" /\ Cur.failedAt = "download"
    /\ DOMAIN Cur.cache0 # {}
    /\ DOMAIN dino_model_cache = {}

\* C4: when install_goundingdino returns False, dino_predict_internal returns
\* (None, False) at once: nothing raised, no image preprocessed, no cache lookup,
\* and the cache is as before the call.
C4_InstallSoftFail ==
    Has(Cur.trace, "install_false")
    => /\ Cur.pc = "done" /\ Cur.ret = RetNoneFalse
       /\ Cur.trace = <<"install_false">>
       /\ dino_model_cache = Cur.cache0

\* C4 witness: the installer failed in a call that found a model cached.
C4_Witness ==
    /\ Cur.pc = "done" /\ Cur.op = "predict" /\ Cur.ret = RetNoneFalse
    /\ DOMAIN dino_model_cache # {}

\* C5 as stated: every dino_predict_internal call that returns, (None, False)
\* included, ends with gc.collect() followed by torch_gc().
C5_Original ==
    (Cur.pc = "done" /\ Cur.op = "predict" /\ Cur.ret.kind \in {"boxes", "none"})
    => EndsWithReclaim(Cur.trace)

\* C5 amended: every dino_predict_internal call that returns (boxes, True) ends
\* with gc.collect() followed by torch_gc(), however many boxes it returns; the
\* call that returns (None, False) reclaims nothing.
C5_ReclaimOnSuccess ==
    /\ (Cur.pc = "done" /\ Cur.op = "predict" /\ Cur.ret.kind = "boxes")
          => /\ EndsWithReclaim(Cur.trace)
             /\ Has(Cur.trace, "forward_on_device")
    /\ (Cur.pc = "done" /\ Cur.op = "predict" /\ Cur.ret.kind = "none")
          => ~Has(Cur.trace, "gc.collect") /\ ~Has(Cur.trace, "torch_gc")

\* C5 witness: a call on a cache hit (no eviction, so no other reclamation)
\* returned zero boxes.
C5_Witness ==
    /\ Cur.pc = "done" /\ Cur.op = "predict" /\ Cur.ret.kind = "boxes"
    /\ Cur.ret.boxes = <<>>
    /\ Has(Cur.trace, "hit")

\* C6: when the callers serialize load_dino_model by one lock, at most one call
\* is in progress and the cache never holds two entries (without the lock it can:
\* see the witness).
C6_LockedSingleSlot ==
    useLock => /\ Cardinality(DOMAIN dino_model_cache) <= 1
               /\ Cardinality({t \in Threads : frame[t].pc # "idle"}) <= 1

\* C6 witness: without the lock, two loads of different checkpoints interleaved
\* and left two entries in the cache.
C6_Witness ==
    /\ ~useLock
    /\ Cardinality(DOMAIN dino_model_cache) = 2

\* the queries of the current model output whose confidence for some class is
\* strictly above the threshold
Kept == { i \in DOMAIN Cur.logits :
            \E c \in DOMAIN Cur.logits[i] : Sigmoid(Cur.logits[i][c]) > Cur.thr }

\* the j-th kept query, in query order
NthKept(j) == CHOOSE i \in Kept : Cardinality({k \in Kept : k < i}) = j - 1

\* (cx*W - w*W/2, cy*H - h*H/2, cx*W + w*W/2, cy*H + h*H/2)
CornerBox(b, W, H) ==
    << b[1] * W - (b[3] * W) \div 2, b[2] * H - (b[4] * H) \div 2,
       b[1] * W + (b[3] * W) \div 2, b[2] * H + (b[4] * H) \div 2 >>

\* C7: get_grounding_output returns exactly the boxes of the queries whose
\* maximum confidence is strictly greater than box_threshold, in query order,
\* and the pipeline returns as many boxes with ok = True, also when none passes.
C7_StrictFilter ==
    /\ Cur.pc = "rescale"
          => /\ Len(Cur.boxes_filt) = Cardinality(Kept)
             /\ \A j \in 1..Len(Cur.boxes_filt) :
                   Cur.boxes_filt[j] = Cur.pred_boxes[NthKept(j)]
    /\ (Cur.pc = "done" /\ Cur.ret.kind = "boxes")
          => /\ Cur.ret.ok
             /\ Len(Cur.ret.boxes) = Cardinality(Kept)

\* C7 witness: of two queries the first has maximum confidence equal to the
\* threshold and is dropped, the second is above it and is the one box returned.
C7_Witness ==
    /\ Cur.pc = "done" /\ Cur.ret.kind = "boxes" /\ Cur.thr = 50
    /\ Len(Cur.logits) = 2
    /\ \A c \in DOMAIN Cur.logits[1] : Sigmoid(Cur.logits[1][c]) = 50
    /\ Kept = {2}
    /\ Len(Cur.ret.boxes) = 1

\* C8: every returned box is the corner form of its kept normalized box scaled
\* by the image size, whatever the other boxes are; 640x480 with
\* (0.5, 0.5, 0.2, 0.4) gives (256, 144, 384, 336).
C8_CornerBoxes ==
    (Cur.pc = "done" /\ Cur.ret.kind = "boxes")
    => \A j \in 1..Len(Cur.ret.boxes) :
          LET b == Cur.pred_boxes[NthKept(j)]
          IN  /\ Cur.ret.boxes[j] = CornerBox(b, Cur.W, Cur.H)
              /\ (Cur.W = 640 /\ Cur.H = 480
                  /\ b = <<Tenths(5), Tenths(5), Tenths(2), Tenths(4)>>)
                    => Cur.ret.boxes[j] =
                          <<Pixels(256), Pixels(144), Pixels(384), Pixels(336)>>

\* C8 witness: a 640x480 image, two different boxes kept, the second of them
\* (0.5, 0.5, 0.2, 0.4), returned as (256, 144, 384, 336).
C8_Witness ==
    /\ Cur.pc = "done" /\ Cur.ret.kind = "boxes"
    /\ Cur.W = 640 /\ Cur.H = 480
    /\ Len(Cur.ret.boxes) = 2
    /\ Cur.ret.boxes[1] # Cur.ret.boxes[2]
    /\ Cur.ret.boxes[2] = <<Pixels(256), Pixels(144), Pixels(384), Pixels(336)>>

\* C9 as stated: show_boxes leaves its input as it was and returns a separate
\* object for every boxes argument, None included, equal in content to the
\* input when boxes is None or empty.
C9_Original ==
    show.pc = "returned"
    => /\ images[show.image_np] = show.before
       /\ show.result # show.image_np
       /\ (show.boxes_is_none \/ show.boxes = <<>>)
             => images[show.result] = show.before

\* C9 amended: show_boxes leaves its input as it was; for boxes that is not
\* None (empty included) the result is a separate object; for boxes None the
\* result is the input object itself; for boxes None or empty the result equals
\* the input in content.
C9_CopyUnlessNone ==
    show.pc = "returned"
    => /\ images[show.image_np] = show.before
       /\ ~show.boxes_is_none => show.result # show.image_np
       /\ show.boxes_is_none => show.result = show.image_np
       /\ (show.boxes_is_none \/ show.boxes = <<>>)
             => images[show.result] = show.before

\* C9 witness: boxes were drawn: the result differs from the input, which is
\* as before.
C9_Witness ==
    /\ show.pc = "returned"
    /\ ~show.boxes_is_none /\ show.boxes # <<>>
    /\ show.result # show.image_np
    /\ images[show.result] # show.before
    /\ images[show.image_np] = show.before

\* C10: the model is on the compute device whenever the forward pass is about
\* to run; in low-memory mode every cached model is on the host when a
\* dino_predict_internal call has returned boxes and while the caller is idle
\* after such a call; with low-memory mode off every cached model is on the
\* compute device at every moment.
C10_Placement ==
    /\ Cur.pc = "forward" => models[Cur.dino].loc = "device"
    /\ (lowvram /\ Cur.pc = "done" /\ Cur.op = "predict" /\ Cur.ret.kind = "boxes")
          => /\ CachedAt("cpu")
             /\ Has(Cur.trace, "forward_on_device")
             /\ DOMAIN dino_model_cache = {Cur.name}
    /\ (lowvram /\ Cur.pc = "idle" /\ prev.op = "predict" /\ prev.kind = "boxes")
          => CachedAt("cpu") /\ DOMAIN dino_model_cache = {prev.name}
    /\ ~lowvram => CachedAt("device")

\* C10 witness: in low-memory mode a call on a cache hit moved the model to the
\* device, ran the forward pass there and returned with the model on the host.
C10_Witness ==
    /\ lowvram
    /\ Cur.pc = "done" /\ Cur.op = "predict" /\ Cur.ret.kind = "boxes"
    /\ Has(Cur.trace, "hit") /\ Has(Cur.trace, "to_device")
    /\ Has(Cur.trace, "forward_on_device") /\ Has(Cur.trace, "to_cpu")
    /\ models[dino_model_cache[Cur.name]].loc = "cpu"

====
